---- MODULE Spec2Model ----
(***************************************************************************)
(* A model of src/architectures/huggingface_architecture.py: the class     *)
(* HuggingFaceArchitecture, a LightningModule that wraps a sequence to      *)
(* sequence model.                                                          *)
(*                                                                          *)
(* Three specifications share the module:                                   *)
(*   Spec         one instance driven through its step and epoch hooks,     *)
(*   SpecSched    configure_optimizers and the stepping of the schedule,    *)
(*   SpecPredict  predict_step on every rank of a distributed run.          *)
(***************************************************************************)
EXTENDS Integers, Sequences, FiniteSets

VARIABLES
    training,       \* self.model.training, the flag model.train()/eval() set
    calls,          \* model invocations made by the last handler, in order
    val_metrics,    \* samples held by self.val_metrics
    test_metrics,   \* samples held by self.test_metrics
    lastOp,         \* the handler that ran last
    lastMode,       \* the mode argument of the last forward/step call
    batchIn,        \* the batch (or encoded input) the last handler was given
    stepOut,        \* what step() returned inside the last handler
    result,         \* what the last handler returned
    raised,         \* the exception the last handler raised, or "none"
    logged,         \* the self.log / self.log_dict calls of the last handler
    hp,             \* the constructor's hyperparameters (SpecSched)
    total_steps,    \* trainer.estimated_stepping_batches (SpecSched)
    opt,            \* what configure_optimizers returned (SpecSched)
    sched,          \* the state of the SequentialLR scheduler (SpecSched)
    rankBatch,      \* the batch of each rank (SpecPredict)
    rankOutput,     \* predict_step's local mapping on each rank (SpecPredict)
    rankGathered    \* predict_step's return value on each rank (SpecPredict)

coordVars == <<training, calls, val_metrics, test_metrics, lastOp, lastMode,
               batchIn, stepOut, result, raised, logged>>
schedVars == <<hp, total_steps, opt, sched>>
rankVars  == <<rankBatch, rankOutput, rankGathered>>
vars      == <<coordVars, schedVars, rankVars>>

----------------------------------------------------------------------------
(* Bounds of the model. *)

MaxBatch == 2        \* rows in a batch
MaxSamples == 2      \* samples an accumulator holds before its epoch ends
MaxTotalSteps == 6   \* trainer.estimated_stepping_batches, besides the 100 of the example
NumRanks == 2        \* processes of the distributed run

----------------------------------------------------------------------------
(* Values. *)

\* The absence of a value (None, or nothing returned).
Nothing == [none |-> TRUE]

Min(a, b) == IF a <= b THEN a ELSE b
Max(a, b) == IF a >= b THEN a ELSE b

\* A float is modelled by the exact fraction <<numerator, denominator>>.
Frac(n, d) == <<n, d>>
FracEq(a, b) == a[1] * b[2] = b[1] * a[2]
FracMul(a, b) == <<a[1] * b[1], a[2] * b[2]>>

----------------------------------------------------------------------------
(* The tokenizer: token ids are the positions of the vocabulary. *)

Vocab == <<"<pad>", "</s>", "a", "b">>
SpecialTokens == {"<pad>", "</s>"}
TokenIds == 1..Len(Vocab)
Id(text) == CHOOSE t \in TokenIds : Vocab[t] = text

IsWord(t) == Vocab[t] \notin SpecialTokens

\* tokenizer.decode(seq, skip_special_tokens=True,
\* clean_up_tokenization_spaces=False): the text of the tokens that are not
\* special, as a sequence of characters ("" is <<>>).
decode(seq) ==
    LET kept == SelectSeq(seq, IsWord)
    IN  [i \in 1..Len(kept) |-> Vocab[kept[i]]]

batch_decode_dropping_empty(sequences) ==
    SelectSeq([i \in 1..Len(sequences) |-> decode(sequences[i])],
              LAMBDA s : s # <<>>)

\* tokenizer.batch_decode: one string per sequence.
batch_decode(sequences) ==
    [i \in 1..Len(sequences) |-> decode(sequences[i])]

----------------------------------------------------------------------------
(* Batches and the answers of the wrapped model. *)

GenRows == {<<Id("</s>")>>, <<Id("a"), Id("</s>")>>}
BatchSizes == 1..MaxBatch

\* The data set: sample k has the label row LabelOf(k).
SampleIds == 0..(MaxBatch - 1)
LabelOf(k) ==
    IF k % 2 = 0 THEN <<Id("a"), Id("</s>")>> ELSE <<Id("b"), Id("<pad>")>>

\* The sample identifiers of a batch of n rows that starts at sample `first`.
IndexWindow(first, n) == [i \in 1..n |-> first + i - 1]

MkBatch(index) ==
    [encoded |-> [labels |-> [i \in 1..Len(index) |-> LabelOf(index[i])]],
     index |-> index]

Batches ==
    UNION { { MkBatch(IndexWindow(first, n)) : first \in 0..(MaxBatch - n) } :
            n \in BatchSizes }

BatchSize(batch) == Len(batch.index)

\* The scores over the vocabulary that put the weight on token t.
OneHotOf == [t \in TokenIds |-> [u \in TokenIds |-> IF u = t THEN 1 ELSE 0]]

\* logits of shape [batch, seq, vocab] that put the weight on token rows[r][p].
OneHot(rows) ==
    [r \in 1..Len(rows) |-> [p \in 1..Len(rows[r]) |-> OneHotOf[rows[r][p]]]]

PadRows(rows) ==
    [r \in 1..Len(rows) |-> [p \in 1..Len(rows[r]) |-> Id("<pad>")]]

\* What self.model(encoded) answers, an output with logits and loss, given
\* the flag it runs under: with the stochastic regularization of training
\* mode the answer differs from the one of inference mode.
ModelApply(encoded) ==
    [tr \in BOOLEAN |->
        IF tr THEN [logits |-> OneHot(PadRows(encoded.labels)), loss |-> 1]
              ELSE [logits |-> OneHot(encoded.labels), loss |-> 0]]

\* What self.model.generate(encoded) may answer: one sequence per row.
Generations(encoded) == [1..Len(encoded.labels) -> GenRows]

\* The wrapped model as the handlers see it: its answer to a call and to
\* generate for the given input.
Oracles(encoded) ==
    { [apply |-> ModelApply(encoded), generate |-> g] : g \in Generations(encoded) }

\* torch.argmax(logit, dim=-1)
argmax(logit) ==
    [r \in 1..Len(logit) |->
        [p \in 1..Len(logit[r]) |->
            LET v == logit[r][p]
            IN  CHOOSE t \in TokenIds :
                    \A u \in TokenIds : v[u] < v[t] \/ (v[u] = v[t] /\ t <= u)]]

----------------------------------------------------------------------------
(* forward and step, as functions of the running handler's state           *)
(*   st = [training, calls, raised, ret].                                  *)

Enter == [training |-> training, calls |-> <<>>, raised |-> "none", ret |-> Nothing]

Invoke(st, op) == Append(st.calls, [op |-> op, training |-> st.training])

forward_invoke_first(st, encoded, mode, oracle) ==
    IF mode = "train"
    THEN [st EXCEPT !.calls = Invoke(st, "apply"), !.training = TRUE,
                    !.ret = oracle.apply[st.training]]
    ELSE IF mode = "eval"
    THEN [st EXCEPT !.calls = Invoke(st, "apply"), !.training = FALSE,
                    !.ret = oracle.apply[st.training]]
    ELSE [st EXCEPT !.raised = "ValueError"]

forward_lenient(st, encoded, mode, oracle) ==
    IF mode = "train"
    THEN LET s == [st EXCEPT !.training = TRUE]
         IN  [s EXCEPT !.calls = Invoke(s, "apply"),
                        !.ret = oracle.apply[s.training]]
    ELSE LET s == [st EXCEPT !.training = FALSE]
         IN  [s EXCEPT !.calls = Invoke(s, "apply"),
                        !.ret = oracle.apply[s.training]]

forward(st, encoded, mode, oracle) ==
    IF mode = "train"
    THEN LET s == [st EXCEPT !.training = TRUE]
         IN  [s EXCEPT !.calls = Invoke(s, "apply"),
                        !.ret = oracle.apply[s.training]]
    ELSE IF mode = "eval"
    THEN LET s == [st EXCEPT !.training = FALSE]
         IN  [s EXCEPT !.calls = Invoke(s, "apply"),
                        !.ret = oracle.apply[s.training]]
    ELSE [st EXCEPT !.raised = "ValueError"]

EvalResult(f, batch, oracle) ==
    LET g == [f EXCEPT !.calls = Invoke(f, "generate")]
        generation == oracle.generate
    IN  [g EXCEPT !.ret =
            [loss |-> f.ret.loss,
             logit |-> f.ret.logits,
             pred |-> argmax(f.ret.logits),
             generation |-> generation,
             decoded_generation |-> batch_decode(generation),
             label |-> batch.encoded.labels,
             decoded_label |-> batch_decode(batch.encoded.labels),
             index |-> batch.index]]

step_always_generating(st, batch, mode, oracle) ==
    LET f == forward(st, batch.encoded, mode, oracle)
    IN  IF f.raised # "none" THEN f ELSE EvalResult(f, batch, oracle)

step(st, batch, mode, oracle) ==
    LET encoded == batch.encoded
        label == encoded.labels
        index == batch.index
        f == forward(st, encoded, mode, oracle)
    IN  IF f.raised # "none" THEN f
        ELSE IF mode = "train"
        THEN [f EXCEPT !.ret =
                [loss |-> f.ret.loss,
                 logit |-> f.ret.logits,
                 pred |-> argmax(f.ret.logits),
                 label |-> label,
                 index |-> index]]
        ELSE EvalResult(f, batch, oracle)

----------------------------------------------------------------------------
(* The metric accumulators (torchmetrics MetricCollection of ROUGEScore).  *)

\* zip(preds, target): the pairs the metric's update walks over.
Zip(preds, target) ==
    [i \in 1..Min(Len(preds), Len(target)) |-> <<preds[i], target[i]>>]

Words(text) == {text[i] : i \in 1..Len(text)}

\* The ROUGE-1 F-measure of one sample: the overlap of the two texts' words
\* (the texts of this model hold no word twice).
Rouge1(pred, target) ==
    LET hits == Cardinality(Words(pred) \cap Words(target))
    IN  IF hits = 0 THEN Frac(0, 1)
        ELSE IF 2 * hits = Len(pred) + Len(target) THEN Frac(1, 1)
        ELSE Frac(2 * hits, Len(pred) + Len(target))

\* Calling the collection: one score per sample of the batch joins the
\* accumulated state.
metrics_update(acc, preds, target) ==
    LET pairs == Zip(preds, target)
    IN  acc \o [i \in 1..Len(pairs) |-> Rouge1(pairs[i][1], pairs[i][2])]

metrics_reset_keeping(acc) == acc

\* MetricCollection.reset(): a fresh empty state.
metrics_reset(acc) == <<>>

LogLoss(name) ==
    [name |-> name, on_step |-> FALSE, on_epoch |-> TRUE,
     prog_bar |-> FALSE, sync_dist |-> TRUE]

LogMetrics(prefix) ==
    [name |-> prefix, on_step |-> FALSE, on_epoch |-> TRUE,
     prog_bar |-> TRUE, sync_dist |-> FALSE]

----------------------------------------------------------------------------
(* predict_step and the gather.                                            *)

IndexSet(index) == {index[i] : i \in 1..Len(index)}

\* {index[i]: decoded_generation[i] for i in range(len(index))}
PredictOutput(index, decoded) ==
    [k \in IndexSet(index) |->
        decoded[CHOOSE i \in 1..Len(index) :
                    /\ index[i] = k
                    /\ \A j \in 1..Len(index) : index[j] = k => j <= i]]

\* predict_step up to the gather; decoded_generation[i] raises IndexError
\* for an i beyond the decoded strings.
predict_local(st, batch, oracle) ==
    LET g == [st EXCEPT !.calls = Invoke(st, "generate")]
        decoded_generation == batch_decode(oracle.generate)
    IN  IF Len(decoded_generation) < Len(batch.index)
        THEN [g EXCEPT !.raised = "IndexError"]
        ELSE [g EXCEPT !.ret = PredictOutput(batch.index, decoded_generation)]

\* LightningModule.all_gather(data) gathers the tensors (and numbers) found
\* in a collection and leaves every other leaf as it is.  The mapping's
\* values are strings, so each rank gets its own mapping back.
all_gather(outputs, rank) == outputs[rank]

----------------------------------------------------------------------------
(* Spec: one instance, driven through its hooks.                           *)

ModeInputs == {"train", "eval", "test", ""}

InitCoord ==
    /\ training \in BOOLEAN
    /\ calls = <<>>
    /\ val_metrics = <<>>
    /\ test_metrics = <<>>
    /\ lastOp = "init"
    /\ lastMode = "none"
    /\ batchIn = Nothing
    /\ stepOut = Nothing
    /\ result = Nothing
    /\ raised = "none"
    /\ logged = <<>>

\* What every handler leaves behind: the model's flag, the call log, the
\* handler's name and input, and whether it raised.
Leave(r, op, mode, input) ==
    /\ training' = r.training
    /\ calls' = r.calls
    /\ raised' = r.raised
    /\ lastOp' = op
    /\ lastMode' = mode
    /\ batchIn' = input

\* forward(encoded, mode), called directly.
Forward ==
    \E batch \in Batches, mode \in ModeInputs :
    \E r \in {forward(Enter, batch.encoded, mode, [apply |-> ModelApply(batch.encoded)])} :
        /\ Leave(r, "forward", mode, batch.encoded)
        /\ stepOut' = Nothing
        /\ result' = r.ret
        /\ logged' = <<>>
        /\ UNCHANGED <<val_metrics, test_metrics, schedVars, rankVars>>

\* step(batch, mode), called directly.
Step ==
    \E batch \in Batches, mode \in ModeInputs :
    \E oracle \in Oracles(batch.encoded) :
    \E r \in {step(Enter, batch, mode, oracle)} :
        /\ Leave(r, "step", mode, batch)
        /\ stepOut' = r.ret
        /\ result' = r.ret
        /\ logged' = <<>>
        /\ UNCHANGED <<val_metrics, test_metrics, schedVars, rankVars>>

TrainingStep ==
    \E batch \in Batches :
    \E oracle \in Oracles(batch.encoded) :
    \E r \in {step(Enter, batch, "train", oracle)} :
        LET output == r.ret
        IN  /\ Leave(r, "training_step", "train", batch)
            /\ stepOut' = output
            /\ IF r.raised = "none"
               THEN /\ result' = [loss |-> output.loss, pred |-> output.pred,
                                  label |-> output.label]
                    /\ logged' = <<LogLoss("train_loss")>>
               ELSE /\ result' = Nothing
                    /\ logged' = <<>>
            /\ UNCHANGED <<val_metrics, test_metrics, schedVars, rankVars>>

EvalReturn(output) ==
    [loss |-> output.loss, pred |-> output.pred,
     generation |-> output.generation,
     decoded_generation |-> output.decoded_generation,
     label |-> output.label, decoded_label |-> output.decoded_label]

ValidationStep ==
    \E batch \in Batches :
    \E oracle \in Oracles(batch.encoded) :
    \E r \in {step(Enter, batch, "eval", oracle)} :
        LET output == r.ret
        IN  /\ Len(val_metrics) + BatchSize(batch) <= MaxSamples
            /\ Leave(r, "validation_step", "eval", batch)
            /\ stepOut' = output
            /\ IF r.raised = "none"
               THEN /\ val_metrics' = metrics_update(val_metrics,
                            output.decoded_generation, output.decoded_label)
                    /\ result' = EvalReturn(output)
                    /\ logged' = <<LogLoss("val_loss"), LogMetrics("val_")>>
               ELSE /\ val_metrics' = val_metrics
                    /\ result' = Nothing
                    /\ logged' = <<>>
            /\ UNCHANGED <<test_metrics, schedVars, rankVars>>

TestStep ==
    \E batch \in Batches :
    \E oracle \in Oracles(batch.encoded) :
    \E r \in {step(Enter, batch, "eval", oracle)} :
        LET output == r.ret
        IN  /\ Len(test_metrics) + BatchSize(batch) <= MaxSamples
            /\ Leave(r, "test_step", "eval", batch)
            /\ stepOut' = output
            /\ IF r.raised = "none"
               THEN /\ test_metrics' = metrics_update(test_metrics,
                            output.decoded_generation, output.decoded_label)
                    /\ result' = EvalReturn(output)
                    /\ logged' = <<LogLoss("test_loss"), LogMetrics("test_")>>
               ELSE /\ test_metrics' = test_metrics
                    /\ result' = Nothing
                    /\ logged' = <<>>
            /\ UNCHANGED <<val_metrics, schedVars, rankVars>>

\* predict_step on the only process of a run.
PredictStep ==
    \E batch \in Batches :
    \E oracle \in Oracles(batch.encoded) :
    \E r \in {predict_local(Enter, batch, oracle)} :
        /\ Leave(r, "predict_step", "none", batch)
        /\ stepOut' = Nothing
        /\ result' = IF r.raised = "none" THEN all_gather(<<r.ret>>, 1)
                      ELSE Nothing
        /\ logged' = <<>>
        /\ UNCHANGED <<val_metrics, test_metrics, schedVars, rankVars>>

EpochEnd(op) ==
    /\ Leave(Enter, op, "none", Nothing)
    /\ stepOut' = Nothing
    /\ result' = Nothing
    /\ logged' = <<>>
    /\ UNCHANGED <<schedVars, rankVars>>

OnTrainEpochEnd ==
    /\ EpochEnd("on_train_epoch_end")
    /\ UNCHANGED <<val_metrics, test_metrics>>

OnValidationEpochEnd ==
    /\ EpochEnd("on_validation_epoch_end")
    /\ val_metrics' = metrics_reset(val_metrics)
    /\ UNCHANGED test_metrics

OnTestEpochEnd ==
    /\ EpochEnd("on_test_epoch_end")
    /\ test_metrics' = metrics_reset(test_metrics)
    /\ UNCHANGED val_metrics

----------------------------------------------------------------------------
(* configure_optimizers.                                                   *)

Strategies ==
    {"deepspeed_stage_3", "deepspeed_stage_2_offload", "deepspeed_stage_3_offload",
     "deepspeed_stage_2", "ddp", "unknown"}

\* Floats of the configuration, as exact fractions.  The warmup ratios are
\* ones whose product with a step count the float arithmetic floors as the
\* exact arithmetic does.
LearningRates == {Frac(1, 1000), Frac(3, 10000)}
WeightDecays == {Frac(0, 1), Frac(1, 100)}
WarmupRatios == {Frac(0, 1), Frac(1, 10), Frac(1, 4), Frac(1, 2), Frac(3, 4), Frac(1, 1)}
EtaMinRatios == {Frac(0, 1), Frac(1, 2)}
Intervals == {"step", "epoch"}
TotalSteps == (1..MaxTotalSteps) \cup {100}

select_optimizer_offload_as_fused(strategy) ==
    IF strategy \in {"deepspeed_stage_3", "deepspeed_stage_3_offload"}
    THEN "FusedAdam"
    ELSE IF strategy = "deepspeed_stage_2_offload"
    THEN "DeepSpeedCPUAdam"
    ELSE "AdamW"

\* The optimizer class the strategy tag selects.
select_optimizer(strategy) ==
    IF strategy = "deepspeed_stage_3"
    THEN "FusedAdam"
    ELSE IF \/ strategy = "deepspeed_stage_2_offload"
            \/ strategy = "deepspeed_stage_3_offload"
    THEN "DeepSpeedCPUAdam"
    ELSE "AdamW"

\* int(x) of a fraction x >= 0
IntOf(x) == x[1] \div x[2]

warmup_steps_rounded_up(total, warmup_ratio) ==
    (total * warmup_ratio[1] + warmup_ratio[2] - 1) \div warmup_ratio[2]

\* warmup_steps = int(total_steps * self.warmup_ratio)
warmup_steps_of(total, warmup_ratio) ==
    IntOf(FracMul(Frac(total, 1), warmup_ratio))

lr_lambda_from_one(current_step, warmup_steps) ==
    IF current_step < warmup_steps
    THEN Frac(current_step + 1, Max(1, warmup_steps))
    ELSE Frac(1, 1)

\* The closure lr_lambda of configure_optimizers, over its warmup_steps.
lr_lambda(current_step, warmup_steps) ==
    IF current_step < warmup_steps
    THEN Frac(current_step, Max(1, warmup_steps))
    ELSE Frac(1, 1)

\* A learning rate: an exact fraction, or the value of the cosine curve at
\* step t of T where that value is no fraction.
Exact(x) == [kind |-> "exact", value |-> x]

\* CosineAnnealingLR's learning rate at step t of T_max = T > 0:
\*   eta_min + (base_lr - eta_min) * (1 + cos(pi * t / T)) / 2
CosineValue(t, T, base_lr, eta_min) ==
    IF t % (2 * T) = 0 THEN Exact(base_lr)
    ELSE IF t % (2 * T) = T THEN Exact(eta_min)
    ELSE [kind |-> "cosine", t |-> t, T |-> T]

\* The schedule as configure_optimizers builds it: LambdaLR(lr_lambda),
\* CosineAnnealingLR(T_max, eta_min) and SequentialLR over the two with the
\* milestone warmup_steps.  SequentialLR starts on its first scheduler.
BuildScheduler(lr, warmup_steps, t_max, eta_min) ==
    [last_epoch |-> 0,
     milestone |-> warmup_steps,
     idx |-> 0,
     lambda_last_epoch |-> 0,
     cosine_last_epoch |-> 0,
     T_max |-> t_max,
     eta_min |-> eta_min,
     base_lr |-> lr,
     lr |-> Exact(FracMul(lr, lr_lambda(0, warmup_steps))),
     raised |-> "none"]

configure_optimizers(h, total) ==
    LET optimizer == [class |-> select_optimizer(h.strategy),
                      lr |-> h.lr,
                      weight_decay |-> h.weight_decay]
        warmup_steps == warmup_steps_of(total, h.warmup_ratio)
        t_max == total - warmup_steps
        eta_min == FracMul(h.lr, h.eta_min_ratio)
    IN  [optimizer |-> optimizer,
         warmup_steps |-> warmup_steps,
         t_max |-> t_max,
         eta_min |-> eta_min,
         scheduler |-> BuildScheduler(h.lr, warmup_steps, t_max, eta_min),
         interval |-> h.interval]

\* bisect_right(milestones, last_epoch) for the one milestone
BisectRight(milestone, epoch) == IF epoch < milestone THEN 0 ELSE 1

\* SequentialLR.step(): the step count advances, the milestone selects the
\* scheduler; at the milestone the cosine scheduler is restarted with
\* step(0), which evaluates its closed form (a division by T_max), and
\* otherwise the selected scheduler takes one step.
scheduler_step(s) ==
    LET epoch == s.last_epoch + 1
        idx == BisectRight(s.milestone, epoch)
        t == s.cosine_last_epoch + 1
    IN  IF idx = 0
        THEN [s EXCEPT !.last_epoch = epoch, !.idx = 0,
                       !.lambda_last_epoch = @ + 1,
                       !.lr = Exact(FracMul(s.base_lr,
                                    lr_lambda(s.lambda_last_epoch + 1, s.milestone)))]
        ELSE IF s.milestone = epoch
        THEN IF s.T_max = 0
             THEN [s EXCEPT !.last_epoch = epoch, !.idx = 1,
                            !.cosine_last_epoch = 0,
                            !.raised = "ZeroDivisionError"]
             ELSE [s EXCEPT !.last_epoch = epoch, !.idx = 1,
                            !.cosine_last_epoch = 0,
                            !.lr = CosineValue(0, s.T_max, s.base_lr, s.eta_min)]
        ELSE [s EXCEPT !.last_epoch = epoch, !.idx = 1,
                       !.cosine_last_epoch = t,
                       !.lr = CosineValue(t, s.T_max, s.base_lr, s.eta_min)]

Hyperparameters ==
    [strategy : Strategies, lr : LearningRates, weight_decay : WeightDecays,
     warmup_ratio : WarmupRatios, eta_min_ratio : EtaMinRatios,
     interval : Intervals]

InitSched ==
    /\ hp \in Hyperparameters
    /\ total_steps \in TotalSteps
    /\ opt = Nothing
    /\ sched = Nothing

\* The trainer asks for the optimizer and the schedule once.
ConfigureOptimizers ==
    /\ opt = Nothing
    /\ opt' = configure_optimizers(hp, total_steps)
    /\ sched' = opt'.scheduler
    /\ UNCHANGED <<hp, total_steps, coordVars, rankVars>>

\* The trainer advances the schedule: once per optimizer step, so
\* total_steps times in a run, unless a step raised.
SchedulerStep ==
    /\ opt # Nothing
    /\ sched.raised = "none"
    /\ sched.last_epoch < total_steps
    /\ sched' = scheduler_step(sched)
    /\ UNCHANGED <<hp, total_steps, opt, coordVars, rankVars>>

----------------------------------------------------------------------------
(* predict_step on the ranks of a distributed run.                         *)

Ranks == 1..NumRanks

\* A value a rank holds, as opposed to Nothing.
Returned(v) == [value |-> v]

\* The data set is sharded over the ranks: rank r holds the samples
\* r-1, r-1+NumRanks, ... and its batch is a window of its shard.
ShardSample(r, k) == (r - 1) + k * NumRanks

RankBatches(r) ==
    UNION { { MkBatch([i \in 1..n |-> ShardSample(r, first + i - 1)]) :
                first \in 0..(MaxBatch - n + 1) } :
            n \in BatchSizes }

InitRanks ==
    /\ rankBatch \in [Ranks -> UNION {RankBatches(r) : r \in Ranks}]
    /\ \A r \in Ranks : rankBatch[r] \in RankBatches(r)
    /\ rankOutput = [r \in Ranks |-> Nothing]
    /\ rankGathered = [r \in Ranks |-> Nothing]

\* A rank runs predict_step up to the collective.
PredictLocal ==
    \E r \in Ranks :
    \E oracle \in Oracles(rankBatch[r].encoded) :
        LET p == predict_local(Enter, rankBatch[r], oracle)
        IN  /\ rankOutput[r] = Nothing
            /\ p.raised = "none"
            /\ rankOutput' = [rankOutput EXCEPT ![r] = Returned(p.ret)]
            /\ UNCHANGED <<rankBatch, rankGathered, coordVars, schedVars>>

\* Every rank has reached self.all_gather(output): each gets its return value.
Gather ==
    /\ \A r \in Ranks : rankOutput[r] # Nothing
    /\ \A r \in Ranks : rankGathered[r] = Nothing
    /\ rankGathered' =
            [r \in Ranks |->
                Returned(all_gather([q \in Ranks |-> rankOutput[q].value], r))]
    /\ UNCHANGED <<rankBatch, rankOutput, coordVars, schedVars>>

----------------------------------------------------------------------------
(* The specifications.                                                     *)

IdleCoord ==
    /\ training = TRUE
    /\ calls = <<>>
    /\ val_metrics = <<>>
    /\ test_metrics = <<>>
    /\ lastOp = "init"
    /\ lastMode = "none"
    /\ batchIn = Nothing
    /\ stepOut = Nothing
    /\ result = Nothing
    /\ raised = "none"
    /\ logged = <<>>

IdleSched ==
    /\ hp = Nothing
    /\ total_steps = 0
    /\ opt = Nothing
    /\ sched = Nothing

IdleRanks ==
    /\ rankBatch = Nothing
    /\ rankOutput = Nothing
    /\ rankGathered = Nothing

Init == InitCoord /\ IdleSched /\ IdleRanks

Next ==
    \/ Forward
    \/ Step
    \/ TrainingStep
    \/ ValidationStep
    \/ TestStep
    \/ PredictStep
    \/ OnTrainEpochEnd
    \/ OnValidationEpochEnd
    \/ OnTestEpochEnd

Spec == Init /\ [][Next]_vars

InitSchedSpec == IdleCoord /\ InitSched /\ IdleRanks

NextSched ==
    \/ ConfigureOptimizers
    \/ SchedulerStep

SpecSched == InitSchedSpec /\ [][NextSched]_vars

InitPredict == IdleCoord /\ IdleSched /\ InitRanks

NextPredict ==
    \/ PredictLocal
    \/ Gather

SpecPredict == InitPredict /\ [][NextPredict]_vars

----------------------------------------------------------------------------
(* Properties of the step handlers (Spec).                                 *)

GenerateCount(log) == Cardinality({i \in 1..Len(log) : log[i].op = "generate"})
ApplyCount(log) == Cardinality({i \in 1..Len(log) : log[i].op = "apply"})

RanStep(mode) ==
    /\ lastOp \in {"step", "training_step", "validation_step", "test_step"}
    /\ lastMode = mode

\* C1: a step in "train" mode (step called directly or through
\* training_step) makes no call of the model's generate, so the count of
\* generate calls is the same after it as before, and what step returns has
\* exactly the keys loss, logit, pred, label and index.
C1_TrainStepNeverGenerates ==
    RanStep("train") =>
        /\ raised = "none"
        /\ GenerateCount(calls) = 0
        /\ DOMAIN stepOut = {"loss", "logit", "pred", "label", "index"}

C1_Witness ==
    /\ lastOp = "training_step"
    /\ raised = "none"
    /\ ApplyCount(calls) = 1
    /\ BatchSize(batchIn) > 1
    /\ stepOut.index = batchIn.index

\* C4: forward or step called with a mode other than "train" and "eval"
\* raises the invalid-mode error; the model is then neither called nor asked
\* to generate, and its training flag stays as it was.
C4_InvalidModeFails ==
    [][ (lastOp' \in {"forward", "step"} /\ lastMode' \notin {"train", "eval"}) =>
            /\ raised' = "ValueError"
            /\ calls' = <<>>
            /\ training' = training ]_vars

C4_Witness ==
    /\ lastOp = "step"
    /\ lastMode = "test"
    /\ raised = "ValueError"
    /\ calls = <<>>
    /\ training = FALSE

\* C9: a step in "eval" mode (step called directly or through
\* validation_step or test_step) calls generate exactly once and returns
\* decoded_generation and decoded_label, each with one string per row of the
\* batch.
C9_EvalStepDecodesEveryRow ==
    RanStep("eval") =>
        /\ raised = "none"
        /\ GenerateCount(calls) = 1
        /\ {"decoded_generation", "decoded_label"} \subseteq DOMAIN stepOut
        /\ Len(stepOut.decoded_generation) = BatchSize(batchIn)
        /\ Len(stepOut.decoded_label) = BatchSize(batchIn)
        /\ Len(batchIn.encoded.labels) = BatchSize(batchIn)

C9_Witness ==
    /\ lastOp = "validation_step"
    /\ BatchSize(batchIn) > 1
    /\ Len(stepOut.decoded_generation) = BatchSize(batchIn)
    /\ stepOut.decoded_generation[1] = <<>>
    /\ stepOut.decoded_generation[2] # <<>>

\* The accumulator of a phase is empty when its epoch-end hook has run.
C6_EmptyAfterEpochEnd ==
    /\ lastOp = "on_validation_epoch_end" => val_metrics = <<>>
    /\ lastOp = "on_test_epoch_end" => test_metrics = <<>>

\* What a handler may do to the two accumulators.
C6_OwnPhaseOnly ==
    /\ val_metrics' # val_metrics =>
            lastOp' \in {"validation_step", "on_validation_epoch_end"}
    /\ test_metrics' # test_metrics =>
            lastOp' \in {"test_step", "on_test_epoch_end"}
    /\ lastOp' = "validation_step" =>
            /\ Len(val_metrics') = Len(val_metrics) + BatchSize(batchIn')
            /\ SubSeq(val_metrics', 1, Len(val_metrics)) = val_metrics
            /\ \A i \in 1..BatchSize(batchIn') :
                    val_metrics'[Len(val_metrics) + i] =
                        Rouge1(stepOut'.decoded_generation[i], stepOut'.decoded_label[i])
    /\ lastOp' = "test_step" =>
            /\ Len(test_metrics') = Len(test_metrics) + BatchSize(batchIn')
            /\ SubSeq(test_metrics', 1, Len(test_metrics)) = test_metrics
            /\ \A i \in 1..BatchSize(batchIn') :
                    test_metrics'[Len(test_metrics) + i] =
                        Rouge1(stepOut'.decoded_generation[i], stepOut'.decoded_label[i])

\* C6: after on_validation_epoch_end the validation accumulator holds no
\* sample, after on_test_epoch_end the test accumulator holds none; an
\* accumulator changes only in its own phase's step, which adds one sample
\* per decoded_generation/decoded_label pair of the batch, and in its own
\* phase's epoch end; on_train_epoch_end changes neither.
C6_AccumulatorsPerPhase ==
    []C6_EmptyAfterEpochEnd /\ [][C6_OwnPhaseOnly]_vars

C6_Witness ==
    /\ lastOp = "on_validation_epoch_end"
    /\ val_metrics = <<>>
    /\ Len(test_metrics) = MaxSamples

\* The flag under which a step's calls of the model ran, and after it.
C10_CallsUnderStepMode ==
    /\ lastOp = "training_step" =>
            /\ training
            /\ ApplyCount(calls) = 1
            /\ \A i \in 1..Len(calls) : calls[i].training
    /\ lastOp \in {"validation_step", "test_step"} =>
            /\ ~training
            /\ ApplyCount(calls) = 1
            /\ GenerateCount(calls) = 1
            /\ calls[1].op = "apply"
            /\ \A i \in 1..Len(calls) : ~calls[i].training

\* predict_step and the flag.
C10_PredictKeepsMode ==
    lastOp' = "predict_step" =>
        /\ training' = training
        /\ calls' = <<[op |-> "generate", training |-> training]>>

\* C10: every call of the model in a training step runs with the training
\* flag set, every call of the model and the generate after it in a
\* validation or test step run with the flag cleared, and the flag keeps
\* that value when the step returns; predict_step calls generate only, under
\* the flag the handler before it left, and leaves the flag alone.
C10_ModeFollowsStep ==
    []C10_CallsUnderStepMode /\ [][C10_PredictKeepsMode]_vars

C10_Witness ==
    /\ lastOp = "predict_step"
    /\ training
    /\ Len(calls) = 1
    /\ calls[1].training

----------------------------------------------------------------------------
(* Properties of configure_optimizers and the schedule (SpecSched).       *)

Configured == opt # Nothing

\* C5: the strategy tag alone selects the optimizer: "deepspeed_stage_3" the
\* fused one, the two offload tags the CPU one, every other string the
\* default one; each is built with the configured lr and weight_decay.
C5_OptimizerByStrategy ==
    Configured =>
        /\ hp.strategy = "deepspeed_stage_3" => opt.optimizer.class = "FusedAdam"
        /\ hp.strategy \in {"deepspeed_stage_2_offload", "deepspeed_stage_3_offload"} =>
                opt.optimizer.class = "DeepSpeedCPUAdam"
        /\ hp.strategy \notin {"deepspeed_stage_3", "deepspeed_stage_2_offload",
                               "deepspeed_stage_3_offload"} =>
                opt.optimizer.class = "AdamW"
        /\ opt.optimizer.lr = hp.lr
        /\ opt.optimizer.weight_decay = hp.weight_decay

C5_Witness ==
    /\ Configured
    /\ hp.strategy = "unknown"
    /\ opt.optimizer.class = "AdamW"
    /\ opt.optimizer.lr = hp.lr

\* C8: warmup_steps is the floor of total_steps * warmup_ratio and lies in
\* 0..total_steps, t_max is total_steps - warmup_steps and lies in
\* 0..total_steps, eta_min is lr * eta_min_ratio; total_steps = 100 with
\* warmup_ratio = 0.1 gives warmup_steps = 10 and t_max = 90.
C8_ScheduleState ==
    Configured =>
        LET w == opt.warmup_steps
            num == hp.warmup_ratio[1]
            den == hp.warmup_ratio[2]
        IN  /\ w * den <= total_steps * num
            /\ total_steps * num < (w + 1) * den
            /\ 0 <= w /\ w <= total_steps
            /\ opt.t_max = total_steps - w
            /\ 0 <= opt.t_max /\ opt.t_max <= total_steps
            /\ w + opt.t_max = total_steps
            /\ opt.eta_min[1] * (hp.lr[2] * hp.eta_min_ratio[2])
                    = hp.lr[1] * hp.eta_min_ratio[1] * opt.eta_min[2]
            /\ (total_steps = 100 /\ FracEq(hp.warmup_ratio, Frac(1, 10))) =>
                    (w = 10 /\ opt.t_max = 90)

C8_Witness ==
    /\ Configured
    /\ total_steps = 100
    /\ FracEq(hp.warmup_ratio, Frac(1, 10))
    /\ opt.warmup_steps = 10
    /\ opt.t_max = 90
    /\ ~FracEq(opt.eta_min, Frac(0, 1))

\* The schedule as configure_optimizers returned it, not yet stepped.
AtStepZero == Configured /\ sched.last_epoch = 0

\* C2, as claimed: at step 0 the multiplier is 1/max(1, warmup_steps) when
\* warmup_steps > 0 and 1.0 when warmup_steps = 0.
C2_AsClaimed ==
    AtStepZero =>
        /\ sched.lr.kind = "exact"
        /\ FracEq(sched.lr.value,
                  FracMul(hp.lr, IF opt.warmup_steps > 0
                                 THEN Frac(1, Max(1, opt.warmup_steps))
                                 ELSE Frac(1, 1)))

\* C2, amended: at step 0 the multiplier is 0 (0/max(1, warmup_steps)) when
\* warmup_steps > 0 and 1.0 when warmup_steps = 0.
C2_StepZeroMultiplier ==
    AtStepZero =>
        /\ sched.lr.kind = "exact"
        /\ FracEq(sched.lr.value,
                  FracMul(hp.lr, IF opt.warmup_steps > 0
                                 THEN Frac(0, Max(1, opt.warmup_steps))
                                 ELSE Frac(1, 1)))

C2_Witness ==
    /\ AtStepZero
    /\ opt.warmup_steps > 1
    /\ FracEq(sched.lr.value, Frac(0, 1))

\* C3, as claimed: the schedule is in WARMUP with the multiplier
\* step/max(1, warmup_steps) at every step count below warmup_steps, it is
\* in ANNEAL with the multiplier 1.0 (the learning rate lr) at the step
\* count warmup_steps, and it is in ANNEAL at every later step count; with
\* warmup_steps = 0 it is in ANNEAL from the first step.
C3_AsClaimed ==
    Configured =>
        LET w == opt.warmup_steps
            n == sched.last_epoch
        IN  /\ n < w =>
                /\ sched.idx = 0
                /\ sched.raised = "none"
                /\ sched.lr.kind = "exact"
                /\ FracEq(sched.lr.value, FracMul(hp.lr, Frac(n, Max(1, w))))
            /\ n = w =>
                /\ sched.raised = "none"
                /\ w > 0 => sched.idx = 1
                /\ sched.lr.kind = "exact"
                /\ FracEq(sched.lr.value, hp.lr)
            /\ n > w => sched.idx = 1

\* The statement of C3 holds in SpecSched wherever the cosine phase has a
\* step to take (t_max > 0); the run that refutes it has warmup_steps =
\* total_steps.
C3_WhereAnnealHasSteps == (Configured /\ opt.t_max > 0) => C3_AsClaimed

----------------------------------------------------------------------------
(* Properties of predict_step on the ranks (SpecPredict).                  *)

AllGathered == \A r \in Ranks : rankGathered[r] # Nothing

AllIndex == UNION {IndexSet(rankBatch[r].index) : r \in Ranks}

\* C7, as claimed: after the gather every rank holds the same mapping, its
\* keys are the index values of all the ranks' batches and nothing else, and
\* each is mapped to a decoded string that is not empty.
C7_AsClaimed ==
    AllGathered =>
        \A r \in Ranks :
            /\ DOMAIN rankGathered[r].value = AllIndex
            /\ \A k \in DOMAIN rankGathered[r].value : rankGathered[r].value[k] # <<>>
            /\ \A q \in Ranks : rankGathered[q] = rankGathered[r]

====
